---- MODULE Spec2Model ----
(***************************************************************************)
(* Model of src/app.py, the "Universal File Data Joiner": the extraction   *)
(* functions (extract_from_file, extract_tables_pdfplumber,                *)
(* extract_text_clean), the text matcher find_common_text, and the core    *)
(* logic that routes two uploaded files to a join or to a text comparison. *)
(*                                                                         *)
(* A Python str is modelled as a sequence of one-character strings, so     *)
(* that lower(), strip(), splitlines(), split() and the fuzzywuzzy scores  *)
(* are computed character by character as the libraries compute them.      *)
(***************************************************************************)
EXTENDS Integers, Sequences, FiniteSets, TLC

(***************************************************************************)
(* Characters and the str methods the program calls                        *)
(***************************************************************************)

\* str.isspace for the characters of the model: blank, line feed, form feed
IsSpace(c) == c \in {" ", "\n", "\f"}

\* the line boundaries str.splitlines() splits on
IsLineBreak(c) == c \in {"\n", "\f"}

\* code point of a character (the order sorted() puts strings in)
Ord(c) ==
    CASE c = "\n" -> 10 [] c = "\f" -> 12 [] c = " " -> 32 [] c = "#" -> 35
      [] c = "1" -> 49 [] c = "2" -> 50 [] c = "3" -> 51
      [] c = "D" -> 68 [] c = "I" -> 73 [] c = "N" -> 78
      [] c = "a" -> 97 [] c = "b" -> 98 [] c = "c" -> 99 [] c = "d" -> 100
      [] c = "e" -> 101 [] c = "i" -> 105 [] c = "m" -> 109 [] c = "n" -> 110
      [] c = "s" -> 115 [] c = "x" -> 120
      [] OTHER -> 63

\* str.lower() on one character
LowerChar(c) ==
    CASE c = "D" -> "d" [] c = "I" -> "i" [] c = "N" -> "n" [] c = "T" -> "t"
      [] c = "X" -> "x" [] OTHER -> c

\* str.lower()
Lower(s) == [k \in 1..Len(s) |-> LowerChar(s[k])]

\* \w of the regular expression fuzzywuzzy uses: letters and digits
IsAlnum(c) == ~IsSpace(c) /\ c # "#"

RECURSIVE LStrip(_)
LStrip(s) == IF s # <<>> /\ IsSpace(Head(s)) THEN LStrip(Tail(s)) ELSE s

RECURSIVE RStrip(_)
RStrip(s) ==
    IF s # <<>> /\ IsSpace(s[Len(s)]) THEN RStrip(SubSeq(s, 1, Len(s) - 1)) ELSE s

\* str.strip()
Strip(s) == RStrip(LStrip(s))

\* str.splitlines(): the pieces between line breaks, none for a trailing break
RECURSIVE SplitLinesFrom(_, _)
SplitLinesFrom(s, acc) ==
    IF s = <<>> THEN (IF acc = <<>> THEN <<>> ELSE <<acc>>)
    ELSE IF IsLineBreak(Head(s)) THEN <<acc>> \o SplitLinesFrom(Tail(s), <<>>)
    ELSE SplitLinesFrom(Tail(s), Append(acc, Head(s)))

SplitLines(s) == SplitLinesFrom(s, <<>>)

\* str.split(): the maximal runs of non-whitespace characters
RECURSIVE SplitFrom(_, _)
SplitFrom(s, acc) ==
    IF s = <<>> THEN (IF acc = <<>> THEN <<>> ELSE <<acc>>)
    ELSE IF IsSpace(Head(s))
         THEN (IF acc = <<>> THEN <<>> ELSE <<acc>>) \o SplitFrom(Tail(s), <<>>)
         ELSE SplitFrom(Tail(s), Append(acc, Head(s)))

Split(s) == SplitFrom(s, <<>>)

\* s1 < s2 in Python's string order (code points, a proper prefix first)
RECURSIVE StrLess(_, _)
StrLess(s1, s2) ==
    IF s2 = <<>> THEN FALSE
    ELSE IF s1 = <<>> THEN TRUE
    ELSE IF Ord(Head(s1)) # Ord(Head(s2)) THEN Ord(Head(s1)) < Ord(Head(s2))
    ELSE StrLess(Tail(s1), Tail(s2))

\* sorted(set of strings)
RECURSIVE SortedStrs(_)
SortedStrs(S) ==
    IF S = {} THEN <<>>
    ELSE LET m == CHOOSE x \in S : \A y \in S \ {x} : StrLess(x, y)
         IN <<m>> \o SortedStrs(S \ {m})

\* " ".join(list of strings)
RECURSIVE JoinSp(_)
JoinSp(ss) ==
    IF ss = <<>> THEN <<>>
    ELSE IF Len(ss) = 1 THEN ss[1]
    ELSE ss[1] \o <<" ">> \o JoinSp(Tail(ss))

(***************************************************************************)
(* fuzzywuzzy: fuzz.ratio and fuzz.token_set_ratio                         *)
(***************************************************************************)

\* length of the common run of a from i and b from j (ahi, bhi exclusive)
RECURSIVE CommonRun(_, _, _, _, _, _)
CommonRun(a, b, i, j, ahi, bhi) ==
    IF i < ahi /\ j < bhi /\ a[i] = b[j]
    THEN 1 + CommonRun(a, b, i + 1, j + 1, ahi, bhi)
    ELSE 0

\* length of the common run of a before i and b before j (alo, blo inclusive)
RECURSIVE CommonRunBack(_, _, _, _, _, _)
CommonRunBack(a, b, i, j, alo, blo) ==
    IF i > alo /\ j > blo /\ a[i - 1] = b[j - 1]
    THEN 1 + CommonRunBack(a, b, i - 1, j - 1, alo, blo)
    ELSE 0

\* SequenceMatcher's autojunk: in a second sequence of 200 elements or more,
\* the elements that occur more than len(b) // 100 + 1 times are left out of
\* the index b2j
Popular(b) ==
    IF Len(b) >= 200
    THEN {c \in {b[n] : n \in 1..Len(b)} :
             Cardinality({n \in 1..Len(b) : b[n] = c}) > Len(b) \div 100 + 1}
    ELSE {}

\* length of the run from i and j that the index b2j yields: equal elements
\* of which none is popular
RECURSIVE IndexedRun(_, _, _, _, _, _, _)
IndexedRun(a, b, i, j, ahi, bhi, popular) ==
    IF i < ahi /\ j < bhi /\ a[i] = b[j] /\ b[j] \notin popular
    THEN 1 + IndexedRun(a, b, i + 1, j + 1, ahi, bhi, popular)
    ELSE 0

\* SequenceMatcher.find_longest_match, its first loop: <<i, j, k>>, the
\* longest block with a[i..i+k-1] = b[j..j+k-1] that b2j yields; of several,
\* the one earliest in a, then in b
IndexedMatch(a, b, alo, ahi, blo, bhi, popular) ==
    LET starts == (alo..(ahi - 1)) \X (blo..(bhi - 1))
        run == [p \in starts |-> IndexedRun(a, b, p[1], p[2], ahi, bhi, popular)]
        k == CHOOSE n \in {run[p] : p \in starts} : \A p \in starts : run[p] <= n
        i == CHOOSE n \in alo..(ahi - 1) :
                 /\ \E p \in starts : p[1] = n /\ run[p] = k
                 /\ \A p \in starts : run[p] = k => n <= p[1]
        j == CHOOSE n \in blo..(bhi - 1) :
                 /\ run[<<i, n>>] = k
                 /\ \A m \in blo..(bhi - 1) : run[<<i, m>>] = k => n <= m
    IN <<i, j, k>>

\* SequenceMatcher.find_longest_match, its extension loops: the block m grows
\* on both sides by equal elements, popular or not (there is no junk, so the
\* second pair of loops adds nothing)
Extended(a, b, m, alo, ahi, blo, bhi) ==
    LET back == CommonRunBack(a, b, m[1], m[2], alo, blo)
        fwd == CommonRun(a, b, m[1] + m[3], m[2] + m[3], ahi, bhi)
    IN <<m[1] - back, m[2] - back, back + m[3] + fwd>>

\* SequenceMatcher.find_longest_match (the block of the first loop is
\* computed once and then extended)
LongestMatch(a, b, alo, ahi, blo, bhi) ==
    CHOOSE e \in {Extended(a, b, m, alo, ahi, blo, bhi) :
                     m \in {IndexedMatch(a, b, alo, ahi, blo, bhi, Popular(b))}} : TRUE

\* SequenceMatcher.get_matching_blocks: the number of matched characters
RECURSIVE Matches(_, _, _, _, _, _)
Matches(a, b, alo, ahi, blo, bhi) ==
    IF alo >= ahi \/ blo >= bhi THEN 0
    ELSE LET m == LongestMatch(a, b, alo, ahi, blo, bhi)
         IN IF m[3] = 0 THEN 0
            ELSE m[3] + Matches(a, b, alo, m[1], blo, m[2])
                      + Matches(a, b, m[1] + m[3], ahi, m[2] + m[3], bhi)

\* The score is computed in double precision: 2.0 * m / t is rounded to a
\* double x, 100 * x is rounded again, and round() takes the halves of the
\* result to the even integer.  When 200*m/t is exactly q + 1/2, x is the
\* double nearest to (2q + 1)/200, and 100 * x is exactly q + 1/2 for every
\* q in 0..99 but two: just above it for q = 54, just below it for q = 57.
HalfLandsAbove == {54}
HalfLandsBelow == {57}

\* utils.intr(100 * (2.0 * m / t)): int(round(x)) of the double x.  Off the
\* halves 200*m/t is at least 1/(2t) from a half, far more than the error
\* of the two roundings.
IntR(m, t) ==
    LET q == (200 * m) \div t
        r == (200 * m) % t
    IN IF 2 * r < t THEN q
       ELSE IF 2 * r > t THEN q + 1
       ELSE IF q \in HalfLandsAbove THEN q + 1
       ELSE IF q \in HalfLandsBelow THEN q
       ELSE IF q % 2 = 0 THEN q ELSE q + 1

\* fuzz.ratio: 100 for equal strings, 0 when one is empty, else 2*M/T in percent
Ratio(s1, s2) ==
    IF s1 = s2 THEN 100
    ELSE IF Len(s1) = 0 \/ Len(s2) = 0 THEN 0
    ELSE IntR(Matches(s1, s2, 1, Len(s1) + 1, 1, Len(s2) + 1), Len(s1) + Len(s2))

\* utils.full_process: non-alphanumerics to blanks, lower case, strip
FullProcess(s) ==
    Strip(Lower([k \in 1..Len(s) |-> IF IsAlnum(s[k]) THEN s[k] ELSE " "]))

Max3(x, y, z) ==
    IF x >= y /\ x >= z THEN x ELSE IF y >= z THEN y ELSE z

\* fuzz.token_set_ratio(s1, s2)
TokenSetRatio(s1, s2) ==
    LET p1 == FullProcess(s1)
        p2 == FullProcess(s2)
        tokens1 == {Split(p1)[k] : k \in 1..Len(Split(p1))}
        tokens2 == {Split(p2)[k] : k \in 1..Len(Split(p2))}
        sorted_sect == JoinSp(SortedStrs(tokens1 \cap tokens2))
        sorted_1to2 == JoinSp(SortedStrs(tokens1 \ tokens2))
        sorted_2to1 == JoinSp(SortedStrs(tokens2 \ tokens1))
        combined_1to2 == Strip(sorted_sect \o <<" ">> \o sorted_1to2)
        combined_2to1 == Strip(sorted_sect \o <<" ">> \o sorted_2to1)
    IN IF Len(p1) = 0 \/ Len(p2) = 0 THEN 0
       ELSE Max3(Ratio(Strip(sorted_sect), combined_1to2),
                 Ratio(Strip(sorted_sect), combined_2to1),
                 Ratio(combined_1to2, combined_2to1))

(***************************************************************************)
(* Python's None and the values that may be None                           *)
(***************************************************************************)

None == <<>>

Some(x) == <<x>>

(***************************************************************************)
(* Column matcher: the join_cols selection of the core logic               *)
(***************************************************************************)

\* the score a column pair must exceed
ColumnThreshold == 80

\* fuzz.ratio(str(col1).lower(), str(col2).lower())
ColumnScore(col1, col2) == Ratio(Lower(col1), Lower(col2))

\* whether a scored pair is appended to join_cols
Retained(score) == score > ColumnThreshold

\* the inner loop: the pairs of col1 with the columns of df2 from index j on
RECURSIVE JoinColsInner(_, _, _)
JoinColsInner(col1, cols2, j) ==
    IF j > Len(cols2) THEN <<>>
    ELSE LET score == ColumnScore(col1, cols2[j])
         IN (IF Retained(score) THEN <<<<col1, cols2[j], score>>>> ELSE <<>>)
            \o JoinColsInner(col1, cols2, j + 1)

\* the outer loop: join_cols as the two nested loops leave it
RECURSIVE JoinColsOuter(_, _, _)
JoinColsOuter(cols1, cols2, i) ==
    IF i > Len(cols1) THEN <<>>
    ELSE JoinColsInner(cols1[i], cols2, 1) \o JoinColsOuter(cols1, cols2, i + 1)

JoinCols(cols1, cols2) == JoinColsOuter(cols1, cols2, 1)

\* InsertByScore of a sort that is not stable: x goes before its equals
RECURSIVE InsertByScoreUnstable(_, _)
InsertByScoreUnstable(sorted, x) ==
    IF sorted = <<>> THEN <<x>>
    ELSE IF Head(sorted)[3] > x[3]
         THEN <<Head(sorted)>> \o InsertByScoreUnstable(Tail(sorted), x)
    ELSE <<x>> \o sorted

\* where sorted(..., reverse=True) puts x in an already sorted list: behind
\* every element whose score is at least x's (the sort is stable)
RECURSIVE InsertByScore(_, _)
InsertByScore(sorted, x) ==
    IF sorted = <<>> THEN <<x>>
    ELSE IF Head(sorted)[3] >= x[3] THEN <<Head(sorted)>> \o InsertByScore(Tail(sorted), x)
    ELSE <<x>> \o sorted

\* sorted(join_cols, key=lambda x: x[2], reverse=True)
RECURSIVE SortedByScore(_)
SortedByScore(jc) ==
    IF jc = <<>> THEN <<>>
    ELSE InsertByScore(SortedByScore(SubSeq(jc, 1, Len(jc) - 1)), jc[Len(jc)])

\* the pair the join is made on: join_cols[0] after the sort, None without
MatchColumns(cols1, cols2) ==
    LET jc == JoinCols(cols1, cols2)
    IN IF jc = <<>> THEN None ELSE SortedByScore(jc)[1]

(***************************************************************************)
(* Text matcher: find_common_text                                          *)
(***************************************************************************)

\* the default of find_common_text's threshold parameter
DefaultThreshold == 85

\* MeetsThreshold with the comparison "> threshold"
MeetsThresholdStrict(t1, t2, threshold) == TokenSetRatio(t1, t2) > threshold

\* the test a line of text1 passes against a line of text2
MeetsThreshold(t1, t2, threshold) == TokenSetRatio(t1, t2) >= threshold

\* the first loop: a line of text1 is appended once, at its first hit in text2
RECURSIVE CommonLines(_, _, _)
CommonLines(text1, text2, threshold) ==
    IF text1 = <<>> THEN <<>>
    ELSE (IF \E k \in 1..Len(text2) : MeetsThreshold(Head(text1), text2[k], threshold)
          THEN <<Head(text1)>> ELSE <<>>)
         \o CommonLines(Tail(text1), text2, threshold)

\* the second loop: uniq keeps the first occurrence of each line
RECURSIVE Uniq(_, _)
Uniq(common, seen) ==
    IF common = <<>> THEN <<>>
    ELSE IF Head(common) \in seen THEN Uniq(Tail(common), seen)
    ELSE <<Head(common)>> \o Uniq(Tail(common), seen \cup {Head(common)})

FindCommonText(text1, text2, threshold) ==
    Uniq(CommonLines(text1, text2, threshold), {})

(***************************************************************************)
(* Tables: pandas DataFrames, as far as the program uses them              *)
(***************************************************************************)

\* the cell pandas fills in where a frame has no value
NaN == <<"NaN">>

\* pd.DataFrame(table[1:], columns=table[0]): the cells of a page table are
\* strings, so every column has dtype object
DataFrame(table) ==
    [columns |-> Head(table), rows |-> Tail(table),
     dtypes |-> [k \in 1..Len(Head(table)) |-> "object"]]

\* the columns of the frames of a list, each once, in order of first appearance
RECURSIVE UnionColumns(_, _)
UnionColumns(tables, acc) ==
    IF tables = <<>> THEN acc
    ELSE LET cols == Head(tables).columns
             new == SelectSeq(cols, LAMBDA c : \A k \in 1..Len(acc) : acc[k] # c)
         IN UnionColumns(Tail(tables), acc \o new)

\* a row of frame t laid out under the columns cols, NaN where t has no such column
AlignRow(t, row, cols) ==
    [k \in 1..Len(cols) |->
        IF \E m \in 1..Len(t.columns) : t.columns[m] = cols[k] /\ m <= Len(row)
        THEN row[CHOOSE m \in 1..Len(t.columns) : t.columns[m] = cols[k]]
        ELSE NaN]

RECURSIVE ConcatRows(_, _)
ConcatRows(tables, cols) ==
    IF tables = <<>> THEN <<>>
    ELSE [k \in 1..Len(Head(tables).rows) |->
             AlignRow(Head(tables), Head(tables).rows[k], cols)]
         \o ConcatRows(Tail(tables), cols)

\* pd.concat(tables, ignore_index=True), of frames made from page tables
Concat(tables) ==
    LET cols == UnionColumns(tables, <<>>)
    IN [columns |-> cols, rows |-> ConcatRows(tables, cols),
        dtypes |-> [k \in 1..Len(cols) |-> "object"]]

\* the cell of a row in the column named col
Cell(t, row, col) == row[CHOOSE m \in 1..Len(t.columns) : t.columns[m] = col]

\* the dtype of the column named col
KeyDtype(t, col) == t.dtypes[CHOOSE m \in 1..Len(t.columns) : t.columns[m] = col]

\* pd.merge refuses key columns of which one holds strings and the other
\* integers ("You are trying to merge on object and int64 columns")
MergeRaises(df1, df2, col1, col2) ==
    \/ KeyDtype(df1, col1) = "object" /\ KeyDtype(df2, col2) = "int64" /\ df1.rows # <<>>
    \/ KeyDtype(df1, col1) = "int64" /\ KeyDtype(df2, col2) = "object" /\ df2.rows # <<>>

JoinTypes == {"inner", "left", "right", "outer"}

\* pd.merge(df1, df2, left_on=col1, right_on=col2, how=how): the row pairs of
\* the result, 0 standing for the missing side of an unmatched row
Merge(df1, df2, col1, col2, how) ==
    LET matched == {p \in (1..Len(df1.rows)) \X (1..Len(df2.rows)) :
                        Cell(df1, df1.rows[p[1]], col1) = Cell(df2, df2.rows[p[2]], col2)}
        leftOnly == {<<i, 0>> : i \in {i \in 1..Len(df1.rows) :
                                          \A p \in matched : p[1] # i}}
        rightOnly == {<<0, j>> : j \in {j \in 1..Len(df2.rows) :
                                           \A p \in matched : p[2] # j}}
    IN matched
       \cup (IF how \in {"left", "outer"} THEN leftOnly ELSE {})
       \cup (IF how \in {"right", "outer"} THEN rightOnly ELSE {})

(***************************************************************************)
(* Text lines                                                              *)
(***************************************************************************)

\* [ln.strip() for ln in txt.splitlines() if ln.strip()]: the loop body of
\* extract_text_clean for one page, and the comprehension of the .txt branch
RECURSIVE StripNonEmpty(_)
StripNonEmpty(lns) ==
    IF lns = <<>> THEN <<>>
    ELSE (IF Strip(Head(lns)) # <<>> THEN <<Strip(Head(lns))>> ELSE <<>>)
         \o StripNonEmpty(Tail(lns))

CleanLines(txt) == StripNonEmpty(SplitLines(txt))

\* extract_text_clean over the pages of an opened document: page k is
\* [raises, txt]; a page that raises ends the loop with the lines so far
RECURSIVE TextOfPages(_, _)
TextOfPages(pages, lines) ==
    IF pages = <<>> THEN lines
    ELSE IF Head(pages).raises THEN lines
    ELSE TextOfPages(Tail(pages), lines \o CleanLines(Head(pages).txt))

(***************************************************************************)
(* The uploads the model draws from                                        *)
(***************************************************************************)

\* the most pages a PDF of the model has
MaxPages == 2

ColID == <<"I", "D">>
ColName == <<"N", "a", "m", "e">>
ColId == <<"i", "d">>
ColNames == <<"n", "a", "m", "e", "s">>
ColIdx == <<"i", "d", "x">>

\* what page.extract_table() returns for a page with a table, and the rows
\* of a CSV file or a sheet: the header row, then the data rows
TabA == <<<<ColID, ColName>>, <<<<"1">>, <<"a">>>>, <<<<"2">>, <<"b">>>>>>
TabB == <<<<ColId, ColNames>>, <<<<"1">>, <<"c">>>>, <<<<"3">>, <<"d">>>>>>
TabC == <<<<ColIdx>>, <<<<"1">>>>>>

PageTables == {TabA, TabC}

SheetRows == {<<>>, TabB, TabC}

\* sample texts: what page.extract_text() returns, what a .txt upload holds
TxtA == <<"a", " ", "b", "\n", "c">>
TxtB == <<" ", "b", " ", "a", " ", "\n">>
TxtC == <<"x", "\n", "x">>

\* the texts of PDF pages (<<>> for a page without text)
PageTexts == {<<>>, TxtA, TxtC}

\* the contents of .txt uploads
TxtContents == {<<>>, TxtA, TxtB, TxtC}

\* a page as the table pass sees it: extract_table() raises or returns a
\* table (<<>> for None)
TabPages ==
    {[raises |-> TRUE, table |-> <<>>]}
    \cup {[raises |-> FALSE, table |-> t] : t \in {<<>>} \cup PageTables}

\* a page as the text pass sees it: extract_text() raises or returns a text
TxtPages ==
    {[raises |-> TRUE, txt |-> <<>>]}
    \cup {[raises |-> FALSE, txt |-> t] : t \in PageTexts}

\* extensions of file names, as the names spell them
ExtPdf == <<"p", "d", "f">>
ExtCsv == <<"c", "s", "v">>
ExtXlsx == <<"x", "l", "s", "x">>
ExtXls == <<"x", "l", "s">>
ExtTxt == <<"t", "x", "t">>
ExtUpperTxt == <<"T", "X", "T">>
ExtDoc == <<"d", "o", "c">>

\* the extensions of the files a user offers to an uploader
Extensions == {ExtPdf, ExtCsv, ExtXlsx, ExtTxt, ExtUpperTxt, ExtDoc}

\* type=["pdf", "csv", "xlsx", "xls", "txt"] of the two uploaders
UploaderTypes == {ExtPdf, ExtCsv, ExtXlsx, ExtXls, ExtTxt}

\* whether the extension is in the type list of the uploaders, compared
\* without regard to case
Admitted(ext) == Lower(ext) \in UploaderTypes

\* name = file.name.lower(), of which extract_from_file tests the ending
Name(ext) == Lower(ext)

\* no upload read yet
NoFile == [readable |-> TRUE, rows |-> <<>>, tabs |-> <<>>, txts |-> <<>>, chars |-> <<>>]

\* the PDFs of the model: one pdfplumber cannot open, and the documents of
\* up to MaxPages pages (their text is drawn when the text pass opens them)
PdfFiles ==
    {[NoFile EXCEPT !.readable = FALSE]}
    \cup {[NoFile EXCEPT !.tabs = t] :
            t \in UNION {[1..n -> TabPages] : n \in 0..MaxPages}}

\* the CSV files and workbooks of the model: one the parser rejects, and
\* the well-formed ones (an empty CSV file has no header to parse)
SheetFiles ==
    {[NoFile EXCEPT !.readable = FALSE]}
    \cup {[NoFile EXCEPT !.rows = r] : r \in SheetRows}

TxtFiles == {[NoFile EXCEPT !.chars = t] : t \in TxtContents}

(***************************************************************************)
(* State                                                                   *)
(***************************************************************************)

VARIABLES
    pc,        \* where the script is
    fmt,       \* fmt[f]: the extension of upload f's name
    cur,       \* the upload extract_from_file is working on (3: both returned)
    file,      \* the contents of upload cur, as read so far
    df,        \* df[1], df[2]: df1 and df2 of the core logic
    text,      \* text[1], text[2]: text1 and text2 of the core logic
    tables,    \* the list tables of extract_tables_pdfplumber
    lines,     \* the list lines of extract_text_clean
    pg,        \* the page the running loop is at
    open,      \* the documents pdfplumber.open has opened and not closed
    tablePass, \* the table pass on upload cur: "no", "running", "none", "table"
    warnings,  \* the st.warning calls made: <<upload, message>>
    outcome,   \* what the run reported
    joined,    \* the row pairs of the merge of a Joined run
    joinOn,    \* the column pair a Joined run merged on
    common,    \* common_text of a text-mode run
    matcherCalls, \* how often find_common_text was called
    op,        \* the step taken last
    arg,       \* argument of a function applied on its own
    ret        \* its result

vars == <<pc, fmt, cur, file, df, text, tables, lines, pg, open, tablePass,
          warnings, outcome, joined, joinOn, common, matcherCalls, op, arg, ret>>

pipe == <<pc, fmt, cur, file, df, text, tables, lines, pg, open, tablePass,
          warnings, outcome, joined, joinOn, common, matcherCalls, op>>

Outcomes == {"Joined", "NoJoinColumns", "TextMatched", "NoCommonText",
             "NoExtractableContent"}

\* the script before it runs, files of the extensions fmts offered to the
\* two uploaders
Uploaded(fmts) ==
    /\ pc = "start"
    /\ fmt = fmts
    /\ cur = 1
    /\ file = NoFile
    /\ df = <<None, None>>
    /\ text = <<None, None>>
    /\ tables = <<>>
    /\ lines = <<>>
    /\ pg = 0
    /\ open = 0
    /\ tablePass = "no"
    /\ warnings = {}
    /\ outcome = "none"
    /\ joined = {}
    /\ joinOn = None
    /\ common = <<>>
    /\ matcherCalls = 0
    /\ op = "none"

Init ==
    /\ \E fmts \in [1..2 -> Extensions] : Uploaded(fmts)
    /\ arg = <<>>
    /\ ret = <<>>

(***************************************************************************)
(* extract_from_file and the two PDF passes, a step per library call       *)
(***************************************************************************)

\* "if uploaded_file1 and uploaded_file2" is true: both uploaders handed
\* their file to the script and the core logic runs.  The test looks only
\* at the two values; whether a file outside the type list gets this far
\* is the widget's doing, so both outcomes are steps of the model.
RunScript ==
    /\ pc = "start"
    /\ pc' = "dispatch"
    /\ op' = "RunScript"
    /\ UNCHANGED <<fmt, cur, file, df, text, tables, lines, pg, open, tablePass,
                   warnings, outcome, joined, joinOn, common, matcherCalls>>

\* an uploader withholds a file that is outside its type list: its value is
\* None, the test "if uploaded_file1 and uploaded_file2" is false and the
\* script does nothing more
UploadRefused ==
    /\ pc = "start"
    /\ \E f \in 1..2 : ~Admitted(fmt[f])
    /\ pc' = "waiting"
    /\ op' = "UploadRefused"
    /\ UNCHANGED <<fmt, cur, file, df, text, tables, lines, pg, open, tablePass,
                   warnings, outcome, joined, joinOn, common, matcherCalls>>

\* extract_from_file returns (d, t) to the core logic, which goes on to the
\* next upload or, after the second, to the branch on df1 and df2
Return(d, t) ==
    /\ df' = [df EXCEPT ![cur] = d]
    /\ text' = [text EXCEPT ![cur] = t]
    /\ cur' = cur + 1
    /\ pc' = IF cur = 1 THEN "dispatch" ELSE "route"
    /\ tables' = <<>> /\ lines' = <<>> /\ pg' = 0

\* an exception nothing catches leaves the script
Escape ==
    /\ pc' = "crashed"
    /\ UNCHANGED <<df, text, cur>>

\* .pdf: extract_tables_pdfplumber is called and opens the document; a
\* document that cannot be opened raises inside the try
TableOpen ==
    /\ pc = "dispatch" /\ Name(fmt[cur]) = ExtPdf
    /\ \E f \in PdfFiles : f.readable /\ file' = f
    /\ open' = open + 1
    /\ tables' = <<>> /\ lines' = <<>> /\ pg' = 1
    /\ tablePass' = "running"
    /\ pc' = "t_page"
    /\ op' = "TableOpen"
    /\ UNCHANGED <<fmt, cur, df, text, warnings, outcome, joined, joinOn, common, matcherCalls>>

TableOpenRaises ==
    /\ pc = "dispatch" /\ Name(fmt[cur]) = ExtPdf
    /\ \E f \in PdfFiles : ~f.readable /\ file' = f
    /\ warnings' = warnings \cup {<<cur, "Table extraction error">>}
    /\ tables' = <<>> /\ lines' = <<>> /\ pg' = 0
    /\ tablePass' = "none"
    /\ pc' = "x_open"
    /\ op' = "TableOpen"
    /\ UNCHANGED <<fmt, cur, df, text, open, outcome, joined, joinOn, common, matcherCalls>>

\* one turn of the loop over pdf.pages: page.extract_table() returns
TablePage ==
    /\ pc = "t_page" /\ pg <= Len(file.tabs) /\ ~file.tabs[pg].raises
    /\ tables' = IF file.tabs[pg].table # <<>>
                 THEN Append(tables, DataFrame(file.tabs[pg].table))
                 ELSE tables
    /\ pg' = pg + 1
    /\ op' = "TablePage"
    /\ UNCHANGED <<pc, fmt, cur, file, df, text, lines, open, tablePass, warnings,
                   outcome, joined, joinOn, common, matcherCalls>>

\* TablePageRaises without the with block: the document stays open
TablePageRaisesLeak ==
    /\ pc = "t_page" /\ pg <= Len(file.tabs) /\ file.tabs[pg].raises
    /\ warnings' = warnings \cup {<<cur, "Table extraction error">>}
    /\ tablePass' = "none"
    /\ pc' = "x_open"
    /\ op' = "TablePage"
    /\ UNCHANGED <<fmt, cur, file, df, text, tables, lines, pg, open, outcome, joined,
                   joinOn, common, matcherCalls>>

\* page.extract_table() raises: the with block closes the document, the
\* except clause warns, and the function returns None
TablePageRaises ==
    /\ pc = "t_page" /\ pg <= Len(file.tabs) /\ file.tabs[pg].raises
    /\ open' = open - 1
    /\ warnings' = warnings \cup {<<cur, "Table extraction error">>}
    /\ tablePass' = "none"
    /\ pc' = "x_open"
    /\ op' = "TablePage"
    /\ UNCHANGED <<fmt, cur, file, df, text, tables, lines, pg, outcome, joined,
                   joinOn, common, matcherCalls>>

\* the loop is over: the with block closes the document; with a table
\* found, extract_from_file returns (df, None)
TableEndFound ==
    /\ pc = "t_page" /\ pg > Len(file.tabs) /\ tables # <<>>
    /\ open' = open - 1
    /\ tablePass' = "table"
    /\ Return(Some(Concat(tables)), None)
    /\ op' = "TableEnd"
    /\ UNCHANGED <<fmt, file, warnings, outcome, joined, joinOn, common, matcherCalls>>

\* ... and without one it goes on to extract_text_clean
TableEndNone ==
    /\ pc = "t_page" /\ pg > Len(file.tabs) /\ tables = <<>>
    /\ open' = open - 1
    /\ tablePass' = "none"
    /\ pc' = "x_open"
    /\ op' = "TableEnd"
    /\ UNCHANGED <<fmt, cur, file, df, text, tables, lines, pg, warnings, outcome,
                   joined, joinOn, common, matcherCalls>>

\* extract_text_clean opens the document again
TextOpen ==
    /\ pc = "x_open" /\ file.readable
    /\ \E t \in [1..Len(file.tabs) -> TxtPages] : file' = [file EXCEPT !.txts = t]
    /\ open' = open + 1
    /\ lines' = <<>> /\ pg' = 1
    /\ pc' = "x_page"
    /\ op' = "TextOpen"
    /\ UNCHANGED <<fmt, cur, df, text, tables, tablePass, warnings, outcome, joined,
                   joinOn, common, matcherCalls>>

TextOpenRaises ==
    /\ pc = "x_open" /\ ~file.readable
    /\ warnings' = warnings \cup {<<cur, "Text extraction error">>}
    /\ Return(None, Some(<<>>))
    /\ op' = "TextOpen"
    /\ UNCHANGED <<fmt, file, open, tablePass, outcome, joined, joinOn, common, matcherCalls>>

\* one turn of the loop over pdf.pages: page.extract_text() returns
TextPage ==
    /\ pc = "x_page" /\ pg <= Len(file.txts) /\ ~file.txts[pg].raises
    /\ lines' = IF file.txts[pg].txt # <<>>
                THEN lines \o CleanLines(file.txts[pg].txt)
                ELSE lines
    /\ pg' = pg + 1
    /\ op' = "TextPage"
    /\ UNCHANGED <<pc, fmt, cur, file, df, text, tables, open, tablePass, warnings,
                   outcome, joined, joinOn, common, matcherCalls>>

\* page.extract_text() raises: the document is closed, the except clause
\* warns, and the lines read so far are returned
TextPageRaises ==
    /\ pc = "x_page" /\ pg <= Len(file.txts) /\ file.txts[pg].raises
    /\ open' = open - 1
    /\ warnings' = warnings \cup {<<cur, "Text extraction error">>}
    /\ Return(None, Some(lines))
    /\ op' = "TextPage"
    /\ UNCHANGED <<fmt, file, tablePass, outcome, joined, joinOn, common, matcherCalls>>

TextEnd ==
    /\ pc = "x_page" /\ pg > Len(file.txts)
    /\ open' = open - 1
    /\ Return(None, Some(lines))
    /\ op' = "TextEnd"
    /\ UNCHANGED <<fmt, file, tablePass, warnings, outcome, joined, joinOn, common, matcherCalls>>

\* whether the parser reads a cell as an integer
IsIntCell(cell) ==
    cell # <<>> /\ \A k \in 1..Len(cell) : cell[k] \in {"0", "1", "2", "3", "4", "5", "6", "7", "8", "9"}

\* the frame pd.read_csv and pd.read_excel make of the rows they parsed: a
\* column whose cells are all integers gets dtype int64, any other object
SheetFrame(rows) ==
    IF rows = <<>> THEN [columns |-> <<>>, rows |-> <<>>, dtypes |-> <<>>]
    ELSE [columns |-> Head(rows), rows |-> Tail(rows),
          dtypes |-> [k \in 1..Len(Head(rows)) |->
                        IF Tail(rows) # <<>>
                           /\ \A r \in 1..Len(Tail(rows)) : IsIntCell(Tail(rows)[r][k])
                        THEN "int64" ELSE "object"]]

\* .csv: pd.read_csv(file) returns a frame
ReadCsv ==
    /\ pc = "dispatch" /\ Name(fmt[cur]) = ExtCsv
    /\ \E f \in SheetFiles :
        /\ f.readable /\ f.rows # <<>>
        /\ file' = f
        /\ Return(Some(SheetFrame(f.rows)), None)
    /\ tablePass' = "no"
    /\ op' = "ReadCsv"
    /\ UNCHANGED <<fmt, open, warnings, outcome, joined, joinOn, common, matcherCalls>>

\* pd.read_csv(file) raises (no columns to parse, or a tokenizing error);
\* no try encloses the call
ReadCsvRaises ==
    /\ pc = "dispatch" /\ Name(fmt[cur]) = ExtCsv
    /\ \E f \in SheetFiles : (~f.readable \/ f.rows = <<>>) /\ file' = f
    /\ Escape
    /\ tablePass' = "no"
    /\ op' = "ReadCsv"
    /\ UNCHANGED <<fmt, tables, lines, pg, open, warnings, outcome, joined, joinOn,
                   common, matcherCalls>>

\* .xlsx, .xls: pd.read_excel(file) returns a frame
ReadExcel ==
    /\ pc = "dispatch" /\ Name(fmt[cur]) \in {ExtXlsx, ExtXls}
    /\ \E f \in SheetFiles :
        /\ f.readable
        /\ file' = f
        /\ Return(Some(SheetFrame(f.rows)), None)
    /\ tablePass' = "no"
    /\ op' = "ReadExcel"
    /\ UNCHANGED <<fmt, open, warnings, outcome, joined, joinOn, common, matcherCalls>>

\* pd.read_excel(file) raises; no try encloses the call
ReadExcelRaises ==
    /\ pc = "dispatch" /\ Name(fmt[cur]) \in {ExtXlsx, ExtXls}
    /\ \E f \in SheetFiles : ~f.readable /\ file' = f
    /\ Escape
    /\ tablePass' = "no"
    /\ op' = "ReadExcel"
    /\ UNCHANGED <<fmt, tables, lines, pg, open, warnings, outcome, joined, joinOn,
                   common, matcherCalls>>

\* .txt: the stripped, non-empty lines of the decoded bytes
ReadTxt ==
    /\ pc = "dispatch" /\ Name(fmt[cur]) = ExtTxt
    /\ \E f \in TxtFiles :
        /\ file' = f
        /\ Return(None, Some(CleanLines(f.chars)))
    /\ tablePass' = "no"
    /\ op' = "ReadTxt"
    /\ UNCHANGED <<fmt, open, warnings, outcome, joined, joinOn, common, matcherCalls>>

\* Unsupported stopping the script at once instead of returning (None, None)
UnsupportedStops ==
    /\ pc = "dispatch" /\ Name(fmt[cur]) \notin {ExtPdf, ExtCsv, ExtXlsx, ExtXls, ExtTxt}
    /\ warnings' = warnings \cup {<<cur, "Unsupported file format">>}
    /\ file' = NoFile
    /\ outcome' = "NoExtractableContent"
    /\ pc' = "done"
    /\ tablePass' = "no"
    /\ op' = "Unsupported"
    /\ UNCHANGED <<fmt, cur, df, text, tables, lines, pg, open, joined, joinOn, common,
                   matcherCalls>>

\* any other name: a warning, and (None, None)
Unsupported ==
    /\ pc = "dispatch" /\ Name(fmt[cur]) \notin {ExtPdf, ExtCsv, ExtXlsx, ExtXls, ExtTxt}
    /\ warnings' = warnings \cup {<<cur, "Unsupported file format">>}
    /\ file' = NoFile
    /\ Return(None, None)
    /\ tablePass' = "no"
    /\ op' = "Unsupported"
    /\ UNCHANGED <<fmt, open, outcome, joined, joinOn, common, matcherCalls>>

(***************************************************************************)
(* Core logic: the branch on what the two extractions returned             *)
(***************************************************************************)

\* df1 is not None and df2 is not None
BothTables == df[1] # None /\ df[2] # None

\* the truth value of text1 (text2): neither None nor an empty list
Truthy(t) == t # None /\ t[1] # <<>>

\* both frames found and a column pair retained: pd.merge on the best pair
Join ==
    /\ pc = "route" /\ BothTables
    /\ LET best == MatchColumns(df[1][1].columns, df[2][1].columns)
       IN /\ best # None
          /\ ~MergeRaises(df[1][1], df[2][1], best[1], best[2])
          /\ \E join_type \in JoinTypes :
                joined' = Merge(df[1][1], df[2][1], best[1], best[2], join_type)
          /\ joinOn' = best
    /\ outcome' = "Joined"
    /\ pc' = "done"
    /\ op' = "Join"
    /\ UNCHANGED <<fmt, cur, file, df, text, tables, lines, pg, open, tablePass,
                   warnings, common, matcherCalls>>

\* pd.merge raises; no try encloses the call
JoinRaises ==
    /\ pc = "route" /\ BothTables
    /\ LET best == MatchColumns(df[1][1].columns, df[2][1].columns)
       IN /\ best # None
          /\ MergeRaises(df[1][1], df[2][1], best[1], best[2])
          /\ joinOn' = best
    /\ Escape
    /\ op' = "Join"
    /\ UNCHANGED <<fmt, file, tables, lines, pg, open, tablePass, warnings, outcome,
                   joined, common, matcherCalls>>

\* both frames found and join_cols empty
NoJoin ==
    /\ pc = "route" /\ BothTables
    /\ MatchColumns(df[1][1].columns, df[2][1].columns) = None
    /\ outcome' = "NoJoinColumns"
    /\ pc' = "done"
    /\ op' = "NoJoin"
    /\ UNCHANGED <<fmt, cur, file, df, text, tables, lines, pg, open, tablePass,
                   warnings, joined, joinOn, common, matcherCalls>>

\* the else branch with text1 and text2: find_common_text at its default threshold
TextCompare ==
    /\ pc = "route" /\ ~BothTables
    /\ Truthy(text[1]) /\ Truthy(text[2])
    /\ common' = FindCommonText(text[1][1], text[2][1], DefaultThreshold)
    /\ matcherCalls' = matcherCalls + 1
    /\ outcome' = IF common' # <<>> THEN "TextMatched" ELSE "NoCommonText"
    /\ pc' = "done"
    /\ op' = "TextCompare"
    /\ UNCHANGED <<fmt, cur, file, df, text, tables, lines, pg, open, tablePass,
                   warnings, joined, joinOn>>

\* the else branch without: "Could not detect any structured or textual data"
NoContent ==
    /\ pc = "route" /\ ~BothTables
    /\ ~(Truthy(text[1]) /\ Truthy(text[2]))
    /\ outcome' = "NoExtractableContent"
    /\ pc' = "done"
    /\ op' = "NoContent"
    /\ UNCHANGED <<fmt, cur, file, df, text, tables, lines, pg, open, tablePass,
                   warnings, joined, joinOn, common, matcherCalls>>

Next ==
    \/ (RunScript /\ UNCHANGED <<arg, ret>>)
    \/ (UploadRefused /\ UNCHANGED <<arg, ret>>)
    \/ (TableOpen /\ UNCHANGED <<arg, ret>>)
    \/ (TableOpenRaises /\ UNCHANGED <<arg, ret>>)
    \/ (TablePage /\ UNCHANGED <<arg, ret>>)
    \/ (TablePageRaises /\ UNCHANGED <<arg, ret>>)
    \/ (TableEndFound /\ UNCHANGED <<arg, ret>>)
    \/ (TableEndNone /\ UNCHANGED <<arg, ret>>)
    \/ (TextOpen /\ UNCHANGED <<arg, ret>>)
    \/ (TextOpenRaises /\ UNCHANGED <<arg, ret>>)
    \/ (TextPage /\ UNCHANGED <<arg, ret>>)
    \/ (TextPageRaises /\ UNCHANGED <<arg, ret>>)
    \/ (TextEnd /\ UNCHANGED <<arg, ret>>)
    \/ (ReadCsv /\ UNCHANGED <<arg, ret>>)
    \/ (ReadCsvRaises /\ UNCHANGED <<arg, ret>>)
    \/ (ReadExcel /\ UNCHANGED <<arg, ret>>)
    \/ (ReadExcelRaises /\ UNCHANGED <<arg, ret>>)
    \/ (ReadTxt /\ UNCHANGED <<arg, ret>>)
    \/ (Unsupported /\ UNCHANGED <<arg, ret>>)
    \/ (Join /\ UNCHANGED <<arg, ret>>)
    \/ (JoinRaises /\ UNCHANGED <<arg, ret>>)
    \/ (NoJoin /\ UNCHANGED <<arg, ret>>)
    \/ (TextCompare /\ UNCHANGED <<arg, ret>>)
    \/ (NoContent /\ UNCHANGED <<arg, ret>>)

Spec == Init /\ [][Next]_vars

(***************************************************************************)
(* The functions applied on their own, their arguments drawn from bounded  *)
(* sets                                                                    *)
(***************************************************************************)

\* the script not running
Idle ==
    /\ pc = "idle"
    /\ fmt = [f \in 1..2 |-> <<>>]
    /\ cur = 1
    /\ file = NoFile
    /\ df = <<None, None>>
    /\ text = <<None, None>>
    /\ tables = <<>>
    /\ lines = <<>>
    /\ pg = 0
    /\ open = 0
    /\ tablePass = "no"
    /\ warnings = {}
    /\ outcome = "none"
    /\ joined = {}
    /\ joinOn = None
    /\ common = <<>>
    /\ matcherCalls = 0
    /\ op = "none"

\* the sequences over S of at most n elements
SeqsUpTo(S, n) == UNION {[1..k -> S] : k \in 0..n}

\* ---- the column matcher ----

\* the most columns a frame handed to the column matcher has
MaxCols == 2

ColIdxs == <<"i", "d", "x", "s">>

ColumnNames == {ColID, ColId, ColIdx, ColIdxs, ColName, ColNames}

InitCols ==
    /\ Idle
    /\ \E cols1 \in SeqsUpTo(ColumnNames, MaxCols) :
       \E cols2 \in SeqsUpTo(ColumnNames, MaxCols) :
          arg = [cols1 |-> cols1, cols2 |-> cols2]
    /\ ret = None

ApplyMatchColumns ==
    /\ ret = None
    /\ ret' = Some(MatchColumns(arg.cols1, arg.cols2))
    /\ UNCHANGED <<arg, pipe>>

SpecCols == InitCols /\ [][ApplyMatchColumns]_vars

\* ---- the text matcher ----

\* the most lines a list handed to find_common_text has
MaxLines == 2

LineAb == <<"a", "b">>
LineAbc == <<"a", "b", "c">>
LineASpB == <<"a", " ", "b">>
LineBSpA == <<"b", " ", "a">>
LineAHashB == <<"a", "#", "b">>
LineC == <<"c">>

\* stripped, non-empty lines, as the extractor returns them
LineUniverse == {LineAb, LineAbc, LineASpB, LineBSpA, LineAHashB, LineC}

Thresholds == {ColumnThreshold, DefaultThreshold}

InitText ==
    /\ Idle
    /\ \E text1 \in SeqsUpTo(LineUniverse, MaxLines) :
       \E text2 \in SeqsUpTo(LineUniverse, MaxLines) :
       \E threshold \in Thresholds :
          arg = [text1 |-> text1, text2 |-> text2, threshold |-> threshold]
    /\ ret = None

ApplyFindCommonText ==
    /\ ret = None
    /\ ret' = Some(FindCommonText(arg.text1, arg.text2, arg.threshold))
    /\ UNCHANGED <<arg, pipe>>

SpecText == InitText /\ [][ApplyFindCommonText]_vars

\* ---- the line lists of the extractor ----

\* the most characters a document handed to the line extraction has
MaxTextLen == 4

\* letters, the blank, the line feed, and the form feed, which ends a page
TextAlphabet == {"a", "b", " ", "\n", "\f"}

\* the number of pages of a document given as one string, a form feed
\* after each page but the last
NumPages(chars) == 1 + Len(SelectSeq(chars, LAMBDA c : c = "\f"))

\* the pages of such a document as the text pass sees them: page k holds
\* the text up to the next form feed, and extract_text() raises on the
\* pages of raising
RECURSIVE PagesOf(_, _, _, _)
PagesOf(chars, acc, k, raising) ==
    IF chars = <<>> THEN <<[raises |-> k \in raising, txt |-> acc]>>
    ELSE IF Head(chars) = "\f"
         THEN <<[raises |-> k \in raising, txt |-> acc]>>
              \o PagesOf(Tail(chars), <<>>, k + 1, raising)
         ELSE PagesOf(Tail(chars), Append(acc, Head(chars)), k, raising)

InitLines ==
    /\ Idle
    /\ \E kind \in {"pdf", "txt"} :
       \E chars \in SeqsUpTo(TextAlphabet, MaxTextLen) :
       \E raising \in SUBSET (1..NumPages(chars)) :
          /\ kind = "txt" => raising = {}
          /\ arg = [kind |-> kind, chars |-> chars, raising |-> raising]
    /\ ret = None

\* extract_text_clean on a PDF whose pages hold the texts of arg.chars
ApplyExtractTextClean ==
    /\ ret = None /\ arg.kind = "pdf"
    /\ ret' = Some(TextOfPages(PagesOf(arg.chars, <<>>, 1, arg.raising), <<>>))
    /\ UNCHANGED <<arg, pipe>>

\* the .txt branch of extract_from_file on an upload holding arg.chars
ApplyTxtBranch ==
    /\ ret = None /\ arg.kind = "txt"
    /\ ret' = Some(CleanLines(arg.chars))
    /\ UNCHANGED <<arg, pipe>>

NextLines == ApplyExtractTextClean \/ ApplyTxtBranch

SpecLines == InitLines /\ [][NextLines]_vars

(***************************************************************************)
(* Properties                                                              *)
(***************************************************************************)

\* what upload f extracted to, once extract_from_file has returned for it
IsTable(f) == cur > f /\ df[f] # None
IsLines(f) == cur > f /\ df[f] = None /\ text[f] # None /\ text[f][1] # <<>>
IsEmpty(f) == cur > f /\ df[f] = None /\ (text[f] = None \/ text[f][1] = <<>>)

\* the case-insensitive similarity of two column names
CaseInsensitiveScore(a, b) == Ratio(Lower(a), Lower(b))

\* extract_from_file has just returned for a PDF that could be opened, and
\* file still holds that PDF
JustReturnedPdf ==
    /\ pc \in {"dispatch", "route"}
    /\ cur >= 2
    /\ fmt[cur - 1] = ExtPdf
    /\ file.readable

\* page k of the PDF in file has a table and extract_table() returns it
YieldsTable(k) == ~file.tabs[k].raises /\ file.tabs[k].table # <<>>

\* C1: whenever both inputs extract to a Table, the run goes on to the table
\* branch, ends in Joined exactly when some (column of A, column of B) pair
\* has a case-insensitive score strictly above 80 and in NoJoinColumns
\* otherwise, and the text matcher is never called.
C1_TableBranch ==
    (IsTable(1) /\ IsTable(2)) =>
        /\ pc \in {"route", "done"}
        /\ matcherCalls = 0
        /\ pc = "done" =>
            /\ outcome \in {"Joined", "NoJoinColumns"}
            /\ outcome = "Joined" <=>
                 \E i \in 1..Len(df[1][1].columns) : \E j \in 1..Len(df[2][1].columns) :
                     CaseInsensitiveScore(df[1][1].columns[i], df[2][1].columns[j]) > 80

\* C2: the text matcher is called only when both inputs extracted to Lines;
\* a run in which one input is a Table and the other Lines, or in which an
\* input is Empty, ends in NoExtractableContent and not in a crash; a
\* Lines/Lines run ends in TextMatched when the match list is non-empty and
\* in NoCommonText when it is empty.
C2_TextRouting ==
    /\ matcherCalls > 0 => IsLines(1) /\ IsLines(2)
    /\ ( /\ pc \in {"done", "crashed"}
         /\ \/ IsTable(1) /\ IsLines(2)
            \/ IsLines(1) /\ IsTable(2)
            \/ IsEmpty(1)
            \/ IsEmpty(2) )
       => outcome = "NoExtractableContent"
    /\ (pc = "done" /\ IsLines(1) /\ IsLines(2))
       => outcome = IF common # <<>> THEN "TextMatched" ELSE "NoCommonText"

\* C5: when the extraction of a PDF returns, the rows of the table of every
\* page whose extract_table() did not fail are in the returned frame, and
\* in text mode the lines of every page whose extract_text() did not fail
\* are in the returned list, whether the page is before or after a failing one.
C5_PageFailuresIsolated ==
    JustReturnedPdf =>
        LET f == cur - 1 IN
        /\ \A k \in 1..Len(file.tabs) :
              YieldsTable(k) =>
                 /\ df[f] # None
                 /\ \A r \in 1..Len(Tail(file.tabs[k].table)) :
                       \E q \in 1..Len(df[f][1].rows) :
                          df[f][1].rows[q] =
                             AlignRow(DataFrame(file.tabs[k].table),
                                      Tail(file.tabs[k].table)[r], df[f][1].columns)
        /\ df[f] = None =>
              \A k \in 1..Len(file.txts) :
                 ~file.txts[k].raises =>
                    \A n \in 1..Len(CleanLines(file.txts[k].txt)) :
                       \E q \in 1..Len(text[f][1]) :
                          text[f][1][q] = CleanLines(file.txts[k].txt)[n]

\* C6: no extraction failure escapes: the script never ends in an uncaught
\* exception, an upload whose parse failed has extracted to Empty, the other
\* upload is extracted all the same, and a finished run has one of the five
\* outcomes.
C6_FailuresContained ==
    /\ pc # "crashed"
    /\ pc = "done" => cur = 3 /\ outcome \in Outcomes
    /\ (pc \in {"dispatch", "route"} /\ cur >= 2 /\ ~file.readable) => IsEmpty(cur - 1)

\* C7: for a PDF the text pass runs only after the table pass has returned
\* no table; the result is a Table whenever at least one page yields a
\* table and a line list otherwise; and no upload of any format extracts to
\* both a table and a line list.
C7_TableFirst ==
    /\ pc \in {"x_open", "x_page"} => fmt[cur] = ExtPdf /\ tablePass = "none"
    /\ JustReturnedPdf =>
          /\ df[cur - 1] # None <=> \E k \in 1..Len(file.tabs) : YieldsTable(k)
          /\ df[cur - 1] = None => text[cur - 1] # None
    /\ \A f \in 1..2 : ~(df[f] # None /\ text[f] # None)

\* C9: at most one document is open at any time, and a document is open
\* only while a loop over its pages is running: every way out of the loop,
\* a page raising included, has closed it, so none is open once the run is
\* over.
C9_HandlesReleased ==
    /\ open \in {0, 1}
    /\ open = 1 => pc \in {"t_page", "x_page"}

\* a page raised part-way through the table pass, and the document is closed
C9_Witness ==
    /\ op = "TablePage" /\ pc = "x_open"
    /\ pg >= 2
    /\ open = 0

\* the steps that extract a table or text
ExtractionOps == {"TableOpen", "TablePage", "TableEnd", "TextOpen", "TextPage",
                  "TextEnd", "ReadCsv", "ReadExcel", "ReadTxt"}

\* an unsupported upload has been reported
UnsupportedSeen == \E f \in 1..2 : <<f, "Unsupported file format">> \in warnings

C3_BestColumnPair ==
    ret # None =>
        LET c1 == arg.cols1
            c2 == arg.cols2
            r == ret[1]
            score(p) == CaseInsensitiveScore(c1[p[1]], c2[p[2]])
            above == {p \in (1..Len(c1)) \X (1..Len(c2)) : score(p) > 80}
            first == CHOOSE p \in above :
                        \A q \in above :
                           \/ score(q) < score(p)
                           \/ /\ score(q) = score(p)
                              /\ (p[1] < q[1] \/ (p[1] = q[1] /\ p[2] <= q[2]))
        IN IF above = {} THEN r = None
           ELSE r = <<c1[first[1]], c2[first[2]], score(first)>>

\* two pairs of different names tie at the maximum, and one was returned
C3_Witness ==
    /\ ret # None /\ ret[1] # None
    /\ \E i \in 1..Len(arg.cols1) : \E j \in 1..Len(arg.cols2) :
          /\ CaseInsensitiveScore(arg.cols1[i], arg.cols2[j]) = ret[1][3]
          /\ <<arg.cols1[i], arg.cols2[j]>> # <<ret[1][1], ret[1][2]>>

\* the index of the first occurrence of x in the list s
FirstIndex(s, x) == CHOOSE i \in 1..Len(s) : s[i] = x /\ \A k \in 1..(i - 1) : s[k] # x

\* C4: find_common_text returns exactly the lines of text1 for which some
\* line of text2 has a token-set score greater than or equal to the
\* threshold, each once, in the order of their first occurrence in text1.
C4_CommonText ==
    ret # None =>
        LET t1 == arg.text1
            t2 == arg.text2
            r == ret[1]
            hit(x) == \E j \in 1..Len(t2) : TokenSetRatio(x, t2[j]) >= arg.threshold
        IN /\ \A x \in LineUniverse :
                 (\E k \in 1..Len(r) : r[k] = x)
                 <=> (\E i \in 1..Len(t1) : t1[i] = x /\ hit(x))
           /\ \A i \in 1..Len(r) : \A j \in 1..Len(r) :
                 i < j => r[i] # r[j] /\ FirstIndex(t1, r[i]) < FirstIndex(t1, r[j])

\* a line that occurs twice in text1 and whose best score equals the
\* threshold is returned once
C4_Witness ==
    /\ ret # None /\ Len(ret[1]) = 1
    /\ Len(arg.text1) = 2 /\ arg.text1[1] = arg.text1[2]
    /\ \E j \in 1..Len(arg.text2) :
          TokenSetRatio(arg.text1[1], arg.text2[j]) = arg.threshold
    /\ \A j \in 1..Len(arg.text2) :
          TokenSetRatio(arg.text1[1], arg.text2[j]) <= arg.threshold

\* the lines of a document, trimmed, in document order
TrimmedLines(chars) ==
    LET lns == SplitLines(chars) IN [k \in 1..Len(lns) |-> Strip(lns[k])]

\* C8: every line list the extractor returns is a LineSet: every line is a
\* non-empty, whitespace-trimmed line of the document, and the lines stand
\* in the order of their first occurrences in the document, none twice.
C8_LineSet ==
    ret # None =>
        LET r == ret[1]
            d == TrimmedLines(arg.chars)
        IN /\ \A k \in 1..Len(r) :
                 /\ r[k] # <<>>
                 /\ ~IsSpace(r[k][1]) /\ ~IsSpace(r[k][Len(r[k])])
                 /\ \E n \in 1..Len(d) : d[n] = r[k]
           /\ \A i \in 1..Len(r) : \A j \in 1..Len(r) :
                 i < j => r[i] # r[j] /\ FirstIndex(d, r[i]) < FirstIndex(d, r[j])

====
